---- MODULE Spec2Model ----
(***************************************************************************)
(* Sandbox session orchestrator of open-github: the SandboxManager durable *)
(* object (packages/my-sandbox/src/sandbox-manager.ts) behind the worker's *)
(* HTTP surface (the worker's fetch handler, unnamed/part_003), and the   *)
(* caching reverse proxy in front of the sandboxes (packages/proxy); the   *)
(* sandbox providers and the session manager of packages/core.             *)
(*                                                                         *)
(* One actor serves one sessionId.  Several requests can be in flight in   *)
(* the actor at once; a request runs from one `await` to the next in one   *)
(* step and other requests may run in between.  `this.session` is shared   *)
(* by all requests of the actor, locals (`sandboxId`, `sandbox`, `i`, the  *)
(* caught error) belong to one request.                                    *)
(***************************************************************************)
EXTENDS Integers, Sequences, FiniteSets, TLC

\* Number of requests the actor receives in one run.
MaxReq == 3

\* Number of requests in flight in the actor at one time.
MaxInFlight == 2

\* for (let i = 0; i < 15; i++): readiness probes of one creation attempt.
PollAttempts == 15

\* null / undefined of the source; an optional value v is <<v>>.
Null == <<>>

Some(v) == <<v>>

Present(o) == o # Null

Val(o) == o[1]

Reqs == 1..MaxReq

\* error.message values a request can catch.
MsgSdk == "Sandbox SDK only works in production"
MsgClone == "Failed to clone repository"
MsgProvider == "provider call failed"
MsgTypeError == "Cannot read properties of null"

VARIABLES
  session,     \* this.session: Null or <<record>>
  storage,     \* state.storage "session" key: Null or <<record>>
  reqs,        \* the requests of the run, by arrival order
  live,        \* sandbox instances started and not destroyed
  now,         \* last reading of Date.now()
  envSandbox,  \* env.Sandbox binding is available
  envExpose,   \* env.ENVIRONMENT === "production" && env.WORKER_HOSTNAME
  attempts,    \* number of session records initialised so far
  first,       \* request that initialised the first record (0: none yet)
  lastDone,    \* kind of the request that completed last
  urlCache,    \* proxy: the urlCache Map, cacheKey -> {url, timestamp}
  time,        \* proxy: last reading of Date.now() in the proxy process (ms)
  gen,         \* provider: generation of the preview links it hands out
  preqs,       \* proxy: the requests the proxy middleware receives
  input,       \* argument of the function under test
  output,      \* its result (Null before the call)
  variant,     \* core: the provider class in use
  instances,   \* core: the backend's containers / workspaces, handle -> state
  fault,       \* core: the internal step the backend fails in the last call
  cleanupFault, \* core: the step of provision's cleanup the backend fails
  result,      \* core: how the last provider call ended (Null before the first)
  calls,       \* core: number of provider calls made so far
  sessions,    \* core: SessionManager.sessions, id -> Session
  clock,       \* core: last reading of new Date() in the server process
  ulids,       \* core: number of ids ulid() has handed out
  expired,     \* core: return value of the last cleanup() (Null before the first)
  sweeps       \* core: number of cleanup() calls so far

\* The state of the session actor, of the proxy process, and of the provider
\* and the session manager of packages/core.
actor == <<session, storage, reqs, live, now, envSandbox, envExpose, attempts, first, lastDone>>

proxy == <<urlCache, time, gen, preqs, input, output>>

provider == <<variant, instances, fault, cleanupFault, result, calls>>

manager == <<sessions, clock, ulids, expired, sweeps>>

core == <<provider, manager>>

vars == <<session, storage, reqs, live, now, envSandbox, envExpose, attempts, first, lastDone,
          urlCache, time, gen, preqs, input, output,
          variant, instances, fault, cleanupFault, result, calls,
          sessions, clock, ulids, expired, sweeps>>

\* `sb-${params.sessionId}-${Date.now()}`: one actor, one sessionId, so the
\* clock reading is the only part that varies.
SandboxIdOf(t) == <<"sb", t>>

\* The record createSandbox initialises (lines 112-122).
NewSession(t) ==
  [id |-> SandboxIdOf(t), status |-> "provisioning", url |-> Null,
   sandboxId |-> Null, createdAt |-> t, errorMessage |-> Null]

IdleReq ==
  [kind |-> "none", pc |-> "idle", loaded |-> Null, sb |-> Null,
   err |-> Null, serverReady |-> FALSE, exposeThrew |-> FALSE,
   resp |-> Null, http |-> 0, early |-> FALSE, prev |-> "none",
   accepted |-> FALSE, provisioned |-> FALSE, destroyed |-> Null]

InFlight(r) == reqs[r].pc \notin {"idle", "done"}

Quiescent == \A r \in Reqs : ~InFlight(r)

\* A worker that hands the actor's status to the caller on every route but
\* POST (the DELETE route written like the GET route).
WorkerStatusDeletePassesThrough(kind, doStatus) ==
  IF kind = "create" THEN 200 ELSE doStatus

\* A worker that answers 200 on the GET route as it does on the POST route.
WorkerStatusGetAlways200(kind, doStatus) ==
  IF kind = "delete" THEN 204 ELSE 200

\* What the caller of the worker receives for the actor's response
\* (POST always 200, GET the actor's status, DELETE always 204).  The
\* worker forwards nothing else; a request of another kind is made to the
\* actor itself and its caller receives the actor's status.
WorkerStatus(kind, doStatus) ==
  CASE kind = "create" -> 200
    [] kind = "get" -> doStatus
    [] kind = "delete" -> 204
    [] OTHER -> doStatus

\* JSON body {id, url, status, createdAt} of a session (lines 100-105, 39-46, 280-285).
Projection(s) ==
  [id |-> Some(s.id), url |-> s.url, sstatus |-> Some(s.status), createdAt |-> Some(s.createdAt)]

Response(code, body) ==
  Some([status |-> code, id |-> body.id, url |-> body.url, sstatus |-> body.sstatus,
        createdAt |-> body.createdAt])

NoBody == [id |-> Null, url |-> Null, sstatus |-> Null, createdAt |-> Null]

\* The request returns `resp` to the worker, which answers the caller; its
\* locals are gone.
Finish(rq, r, resp) ==
  [rq EXCEPT ![r].pc = "done", ![r].resp = resp, ![r].sb = Null, ![r].err = Null,
             ![r].serverReady = FALSE, ![r].exposeThrew = FALSE,
             ![r].http = WorkerStatus(rq[r].kind, Val(resp).status)]

\* A reuse test that serves only the sessions still being created.
CanReuseOnlyInFlight(s) == s.status \in {"provisioning", "cloning", "starting"}

\* createSandbox's reuse test (lines 94-98).
CanReuse(s) == s.status # "error" /\ s.status # "terminated"

\* A catch block that sets the status and forgets the message.
MarkErrorNoMessage(s, msg) == [s EXCEPT !.status = "error"]

\* A terminateSandbox that leaves the url in place.
MarkTerminatedKeepsUrl(s) == [s EXCEPT !.status = "terminated"]

\* The field writes of the handlers, on the record this.session holds.
MarkError(s, msg) == [s EXCEPT !.status = "error", !.errorMessage = Some(msg)]

MarkCloning(s, sb) == [s EXCEPT !.status = "cloning", !.sandboxId = sb]

MarkStarting(s) == [s EXCEPT !.status = "starting"]

MarkReady(s, u) == [s EXCEPT !.url = u, !.status = "ready"]

MarkTerminated(s) == [s EXCEPT !.status = "terminated", !.url = Null]

\* (exposed as any).exposedAt of the sandbox behind handle sb.
PreviewUrl(sb) == <<"https", sb>>

\* Date.now() never goes back; two readings can fall in the same millisecond.
ClockReadings == IF now = 0 THEN {1} ELSE {now, now + 1}

Init ==
  /\ session = Null
  /\ storage = Null
  /\ reqs = [r \in Reqs |-> IdleReq]
  /\ live = {}
  /\ now = 0
  /\ envSandbox \in BOOLEAN
  /\ envExpose \in BOOLEAN
  /\ attempts = 0
  /\ first = 0
  /\ lastDone = "none"

\* A request of the given kind arrives; fetch runs up to its first await.
\* loadSession (316-321) issues storage.get only when this.session is null;
\* the read is ordered at its call.
Start(r, kind) ==
  /\ reqs[r].pc = "idle"
  /\ IF r = 1 THEN TRUE ELSE reqs[r - 1].pc # "idle"
  /\ Cardinality({q \in Reqs : InFlight(q)}) < MaxInFlight
  /\ reqs' = [reqs EXCEPT ![r].kind = kind,
                          ![r].early = IF first = 0 THEN TRUE ELSE reqs[first].pc # "done",
                          ![r].prev = IF Quiescent THEN lastDone ELSE "concurrent",
                          ![r].loaded = IF Present(session) THEN Null ELSE storage,
                          ![r].pc = IF Present(session) THEN "handle" ELSE "loading"]
  /\ UNCHANGED <<session, storage, live, now, envSandbox, envExpose, proxy, core, attempts, first, lastDone>>

\* storage.get resolves: this.session = value || null (318-319).
LoadEnd(r) ==
  /\ reqs[r].pc = "loading"
  /\ session' = reqs[r].loaded
  /\ reqs' = [reqs EXCEPT ![r].pc = "handle", ![r].loaded = Null]
  /\ UNCHANGED <<storage, live, now, envSandbox, envExpose, proxy, core, attempts, first, lastDone>>

\* The catch block of fetch (66-83) for a request that caught `msg`.
OuterCatch(rq, r, msg) ==
  IF Present(session)
  THEN /\ session' = Some(MarkError(Val(session), msg))
       /\ storage' = session'
       /\ reqs' = [rq EXCEPT ![r].pc = "save_outer", ![r].err = Some(msg)]
       /\ lastDone' = lastDone
  ELSE /\ UNCHANGED <<session, storage>>
       /\ reqs' = Finish([rq EXCEPT ![r].err = Some(msg)], r, Response(500, NoBody))
       /\ lastDone' = rq[r].kind

\* The catch block of createSandbox (288-295) for a request that caught `msg`.
\* With this.session null the catch block itself throws, into fetch's catch.
InnerCatch(rq, r, msg) ==
  IF Present(session)
  THEN /\ session' = Some(MarkError(Val(session), msg))
       /\ storage' = session'
       /\ reqs' = [rq EXCEPT ![r].pc = "save_catch", ![r].err = Some(msg)]
       /\ lastDone' = lastDone
  ELSE OuterCatch(rq, r, MsgTypeError)

\* POST {action: "create"}: the reuse test and, failing it, the new record
\* and its first save (93-123).
CreateCheck(r) ==
  /\ reqs[r].pc = "handle" /\ reqs[r].kind = "create"
  /\ IF Present(session) /\ CanReuse(Val(session))
     THEN /\ reqs' = Finish(reqs, r, Response(200, Projection(Val(session))))
          /\ lastDone' = "create"
          /\ UNCHANGED <<session, storage, now, attempts, first>>
     ELSE \E t \in ClockReadings :
          /\ session' = Some(NewSession(t))
          /\ storage' = session'
          /\ now' = t
          /\ attempts' = attempts + 1
          /\ first' = IF first = 0 THEN r ELSE first
          /\ reqs' = [reqs EXCEPT ![r].pc = "save_init", ![r].sb = Some(SandboxIdOf(t)),
                                  ![r].accepted = TRUE]
          /\ lastDone' = lastDone
  /\ UNCHANGED <<live, envSandbox, envExpose, proxy, core>>

\* After the first save: the binding test (125-148), else getSandbox and
\* the entry of the try block (150-159).
Bind(r) ==
  /\ reqs[r].pc = "save_init"
  /\ IF ~envSandbox
     THEN IF Present(session)
          THEN /\ session' = Some(MarkError(Val(session), MsgSdk))
               /\ storage' = session'
               /\ reqs' = [reqs EXCEPT ![r].pc = "save_503"]
               /\ lastDone' = lastDone
          ELSE OuterCatch(reqs, r, MsgTypeError)
     ELSE IF Present(session)
          THEN /\ session' = Some(MarkCloning(Val(session), reqs[r].sb))
               /\ storage' = session'
               /\ reqs' = [reqs EXCEPT ![r].pc = "exec_clone", ![r].provisioned = TRUE]
               /\ lastDone' = lastDone
          ELSE InnerCatch([reqs EXCEPT ![r].provisioned = TRUE], r, MsgTypeError)
  /\ UNCHANGED <<live, now, envSandbox, envExpose, proxy, core, attempts, first>>

\* The 503 response, built from this.session after the save (134-147).
Resp503(r) ==
  /\ reqs[r].pc = "save_503"
  /\ IF Present(session)
     THEN /\ reqs' = Finish(reqs, r,
                       Response(503, [Projection(Val(session)) EXCEPT !.url = Null]))
          /\ lastDone' = "create"
          /\ UNCHANGED <<session, storage>>
     ELSE OuterCatch(reqs, r, MsgTypeError)
  /\ UNCHANGED <<live, now, envSandbox, envExpose, proxy, core, attempts, first>>

\* sandbox.exec(cloneCommand) returns or throws (175-182); the first
\* command that runs starts the instance.
ExecClone(r) ==
  /\ reqs[r].pc = "exec_clone"
  /\ \E outcome \in {"ok", "fail", "throw"} :
       CASE outcome = "ok" ->
              /\ live' = live \cup {Val(reqs[r].sb)}
              /\ reqs' = [reqs EXCEPT ![r].pc = "exec_verify"]
              /\ UNCHANGED <<session, storage, lastDone>>
         [] outcome = "fail" ->
              /\ live' = live \cup {Val(reqs[r].sb)}
              /\ InnerCatch(reqs, r, MsgClone)
         [] outcome = "throw" ->
              /\ live' = live
              /\ InnerCatch(reqs, r, MsgProvider)
  /\ UNCHANGED <<now, envSandbox, envExpose, proxy, core, attempts, first>>

\* sandbox.exec(`ls -la /workspace/repo`) returns, then status "starting"
\* and its save (185-190).
ExecVerify(r) ==
  /\ reqs[r].pc = "exec_verify"
  /\ \E outcome \in {"ok", "throw"} :
       IF outcome = "ok"
       THEN IF Present(session)
            THEN /\ session' = Some(MarkStarting(Val(session)))
                 /\ storage' = session'
                 /\ reqs' = [reqs EXCEPT ![r].pc = "exec_install"]
                 /\ lastDone' = lastDone
            ELSE InnerCatch(reqs, r, MsgTypeError)
       ELSE InnerCatch(reqs, r, MsgProvider)
  /\ UNCHANGED <<live, now, envSandbox, envExpose, proxy, core, attempts, first>>

\* The install, the version check and startProcess (192-225): three
\* provider calls whose results are ignored; each can throw.  No shared
\* state is touched between them, so they are taken in one step.
InstallAndStart(r) ==
  /\ reqs[r].pc = "exec_install"
  /\ \E outcome \in {"ok", "install", "ocverify", "start"} :
       IF outcome = "ok"
       THEN /\ reqs' = [reqs EXCEPT ![r].pc = "poll"]
            /\ UNCHANGED <<session, storage, lastDone>>
       ELSE InnerCatch(reqs, r, MsgProvider)
  /\ UNCHANGED <<live, now, envSandbox, envExpose, proxy, core, attempts, first>>

\* Lines 274-277: the url and status "ready", then the save.
SetReady(rq, r, u) ==
  IF Present(session)
  THEN /\ session' = Some(MarkReady(Val(session), u))
       /\ storage' = session'
       /\ reqs' = [rq EXCEPT ![r].pc = "save_ready"]
       /\ lastDone' = lastDone
  ELSE InnerCatch(rq, r, MsgTypeError)

\* After the readiness loop (253-272): exposePort only in production.
AfterPoll(rq, r) ==
  IF envExpose
  THEN /\ reqs' = [rq EXCEPT ![r].pc = "expose_port"]
       /\ UNCHANGED <<session, storage, lastDone>>
  ELSE SetReady(rq, r, Null)

\* The readiness loop (229-245) from turn i on, when the probes before
\* turn k find nothing and probe k (if the loop gets that far) ends as o.
RECURSIVE PollLoop(_, _, _)
PollLoop(i, k, o) ==
  IF i < PollAttempts
  THEN IF i < k
       THEN PollLoop(i + 1, k, o)
       ELSE [serverReady |-> (o = "ready"), threw |-> (o = "throw"), probes |-> i + 1]
  ELSE [serverReady |-> FALSE, threw |-> FALSE, probes |-> i]

\* The readiness loop resumes after startProcess and runs to its end; it
\* touches no shared state, so its turns are taken in one step.
Poll(r) ==
  /\ reqs[r].pc = "poll"
  /\ \E k \in 0..PollAttempts, o \in {"ready", "throw"} :
       LET res == PollLoop(0, k, o)
           rq == [reqs EXCEPT ![r].serverReady = res.serverReady]
       IN  IF res.threw
           THEN InnerCatch(rq, r, MsgProvider)
           ELSE AfterPoll(rq, r)
  /\ UNCHANGED <<live, now, envSandbox, envExpose, proxy, core, attempts, first>>

\* sandbox.exposePort returns {exposedAt}, returns without it, or throws
\* and is caught at 265 (257-269).
ExposePort(r) ==
  /\ reqs[r].pc = "expose_port"
  /\ \E outcome \in {"url", "nourl", "throw"} :
       CASE outcome = "url" -> SetReady(reqs, r, Some(PreviewUrl(Val(reqs[r].sb))))
         [] outcome = "nourl" -> SetReady(reqs, r, Null)
         [] outcome = "throw" -> SetReady([reqs EXCEPT ![r].exposeThrew = TRUE], r, Null)
  /\ UNCHANGED <<live, now, envSandbox, envExpose, proxy, core, attempts, first>>

\* The 200 response of a finished creation, from this.session (279-287).
ReturnReady(r) ==
  /\ reqs[r].pc = "save_ready"
  /\ IF Present(session)
     THEN /\ reqs' = Finish(reqs, r, Response(200, Projection(Val(session))))
          /\ lastDone' = "create"
          /\ UNCHANGED <<session, storage>>
     ELSE InnerCatch(reqs, r, MsgTypeError)
  /\ UNCHANGED <<live, now, envSandbox, envExpose, proxy, core, attempts, first>>

\* `throw error` at 294 reaches fetch's catch.
Rethrow(r) ==
  /\ reqs[r].pc = "save_catch"
  /\ OuterCatch(reqs, r, Val(reqs[r].err))
  /\ UNCHANGED <<live, now, envSandbox, envExpose, proxy, core, attempts, first>>

\* The 500 response of fetch's catch (76-82).
Return500(r) ==
  /\ reqs[r].pc = "save_outer"
  /\ reqs' = Finish(reqs, r, Response(500, NoBody))
  /\ lastDone' = reqs[r].kind
  /\ UNCHANGED <<session, storage, live, now, envSandbox, envExpose, proxy, core, attempts, first>>

\* GET: 404 without a session, else the projection (29-49).
GetStatus(r) ==
  /\ reqs[r].pc = "handle" /\ reqs[r].kind = "get"
  /\ reqs' = IF Present(session)
              THEN Finish(reqs, r, Response(200, Projection(Val(session))))
              ELSE Finish(reqs, r, Response(404, NoBody))
  /\ lastDone' = "get"
  /\ UNCHANGED <<session, storage, live, now, envSandbox, envExpose, proxy, core, attempts, first>>

\* DELETE: 204 at once without a session or an instance handle (52-55, 299-301),
\* else getSandbox(this.session.sandboxId) and the destroy call (303-306).
DeleteCheck(r) ==
  /\ reqs[r].pc = "handle" /\ reqs[r].kind = "delete"
  /\ IF ~Present(session) \/ ~Present(Val(session).sandboxId)
     THEN /\ reqs' = Finish(reqs, r, Response(204, NoBody))
          /\ lastDone' = "delete"
     ELSE /\ reqs' = [reqs EXCEPT ![r].pc = "destroy", ![r].sb = Val(session).sandboxId]
          /\ lastDone' = lastDone
  /\ UNCHANGED <<session, storage, live, now, envSandbox, envExpose, proxy, core, attempts, first>>

\* sandbox.destroy() returns or throws and is caught (305-309); then
\* status "terminated", url null and the save (311-313).
Destroy(r) ==
  /\ reqs[r].pc = "destroy"
  /\ \E outcome \in {"ok", "throw"} :
       LET rq == IF outcome = "ok" THEN [reqs EXCEPT ![r].destroyed = reqs[r].sb] ELSE reqs
       IN  /\ live' = IF outcome = "ok" THEN live \ {Val(reqs[r].sb)} ELSE live
           /\ IF Present(session)
              THEN /\ session' = Some(MarkTerminated(Val(session)))
                   /\ storage' = session'
                   /\ reqs' = [rq EXCEPT ![r].pc = "save_term"]
                   /\ lastDone' = lastDone
              ELSE OuterCatch(rq, r, MsgTypeError)
  /\ UNCHANGED <<now, envSandbox, envExpose, proxy, core, attempts, first>>

\* The 204 after terminateSandbox (59).
ReturnDeleted(r) ==
  /\ reqs[r].pc = "save_term"
  /\ reqs' = Finish(reqs, r, Response(204, NoBody))
  /\ lastDone' = "delete"
  /\ UNCHANGED <<session, storage, live, now, envSandbox, envExpose, proxy, core, attempts, first>>

\* The idle actor is dropped from memory; the next request runs on a new
\* object whose session field is null (8-13).
Evict ==
  /\ Quiescent
  /\ Present(session)
  /\ \E r \in Reqs : reqs[r].pc = "idle"
  /\ session' = Null
  /\ UNCHANGED <<storage, reqs, live, now, envSandbox, envExpose, proxy, core, attempts, first, lastDone>>

Next ==
  \/ \E r \in Reqs, kind \in {"create", "get", "delete"} : Start(r, kind)
  \/ \E r \in Reqs : LoadEnd(r)
  \/ \E r \in Reqs : CreateCheck(r)
  \/ \E r \in Reqs : Bind(r)
  \/ \E r \in Reqs : Resp503(r)
  \/ \E r \in Reqs : ExecClone(r)
  \/ \E r \in Reqs : ExecVerify(r)
  \/ \E r \in Reqs : InstallAndStart(r)
  \/ \E r \in Reqs : Poll(r)
  \/ \E r \in Reqs : ExposePort(r)
  \/ \E r \in Reqs : ReturnReady(r)
  \/ \E r \in Reqs : Rethrow(r)
  \/ \E r \in Reqs : Return500(r)
  \/ \E r \in Reqs : GetStatus(r)
  \/ \E r \in Reqs : DeleteCheck(r)
  \/ \E r \in Reqs : Destroy(r)
  \/ \E r \in Reqs : ReturnDeleted(r)
  \/ Evict

(***************************************************************************)
(* The caching reverse proxy (packages/proxy/index.ts).  Strings are       *)
(* sequences of one-character strings, so that split, slice, join, the    *)
(* regular expression and parseInt are computed character by character.    *)
(***************************************************************************)

\* process.env.CACHE_TTL || "300000": life of a cache entry, in ms.
CACHE_TTL == 300000

\* setInterval(..., 60000): period of the sweep, in ms.
SweepInterval == 60000

\* Number of sweep periods the proxy clock runs through.
MaxTicks == 6

\* Number of times the provider changes the preview link of a sandbox.
MaxGen == 1

\* Number of requests the proxy receives in one run.
MaxLookups == 3

\* Longest host handed to parseSandboxInfo.
MaxHostLen == 6

PReqs == 1..MaxLookups

DecimalDigits == {"0", "1", "2", "3", "4", "5", "6", "7", "8", "9"}

DigitValue(c) ==
  CASE c = "0" -> 0 [] c = "1" -> 1 [] c = "2" -> 2 [] c = "3" -> 3 [] c = "4" -> 4
    [] c = "5" -> 5 [] c = "6" -> 6 [] c = "7" -> 7 [] c = "8" -> 8 [] c = "9" -> 9

DigitChar(d) ==
  CASE d = 0 -> "0" [] d = 1 -> "1" [] d = 2 -> "2" [] d = 3 -> "3" [] d = 4 -> "4"
    [] d = 5 -> "5" [] d = 6 -> "6" [] d = 7 -> "7" [] d = 8 -> "8" [] d = 9 -> "9"

\* String.prototype.split(sep) for a one-character separator, from index i
\* on with `cur` the piece being read: "".split(".") is [""].
RECURSIVE SplitFrom(_, _, _, _)
SplitFrom(s, sep, i, cur) ==
  IF i > Len(s)
  THEN <<cur>>
  ELSE IF s[i] = sep
       THEN <<cur>> \o SplitFrom(s, sep, i + 1, <<>>)
       ELSE SplitFrom(s, sep, i + 1, Append(cur, s[i]))

Split(s, sep) == SplitFrom(s, sep, 1, <<>>)

\* A join that keeps only the first element.
JoinFirstOnly(parts, sep) == IF Len(parts) = 0 THEN <<>> ELSE parts[1]

\* Array.prototype.join(sep).
RECURSIVE Join(_, _)
Join(parts, sep) ==
  IF Len(parts) = 0
  THEN <<>>
  ELSE IF Len(parts) = 1
       THEN parts[1]
       ELSE parts[1] \o <<sep>> \o Join(Tail(parts), sep)

\* slice(start, end) and slice(start) with 0 <= start <= end.
Slice(s, start, end) == SubSeq(s, start + 1, IF end < Len(s) THEN end ELSE Len(s))

SliceFrom(s, start) == SubSeq(s, start + 1, Len(s))

\* String.prototype.includes for one character.
Includes(s, c) == \E i \in 1..Len(s) : s[i] = c

\* NaN of the source; a number n is <<n>>.
NaN == <<>>

\* The digits parseInt reads from index i on; NaN when there is none.
RECURSIVE ParseDigits(_, _, _, _)
ParseDigits(s, i, acc, seen) ==
  IF i <= Len(s)
  THEN IF s[i] \in DecimalDigits
       THEN ParseDigits(s, i + 1, acc * 10 + DigitValue(s[i]), TRUE)
       ELSE IF seen THEN <<acc>> ELSE NaN
  ELSE IF seen THEN <<acc>> ELSE NaN

\* Index of the first character of s, from i on, that is not white space.
RECURSIVE SkipSpaces(_, _)
SkipSpaces(s, i) ==
  IF i <= Len(s)
  THEN IF s[i] = " " THEN SkipSpaces(s, i + 1) ELSE i
  ELSE i

\* parseInt(s, 10): leading white space, an optional sign, then the longest
\* run of decimal digits; what follows the digits is ignored.
ParseInt(s) ==
  LET i == SkipSpaces(s, 1)
      signed == IF i <= Len(s) THEN s[i] \in {"+", "-"} ELSE FALSE
      n == ParseDigits(s, IF signed THEN i + 1 ELSE i, 0, FALSE)
  IN  IF n = NaN THEN NaN
      ELSE IF signed THEN (IF s[i] = "-" THEN <<0 - n[1]>> ELSE n)
      ELSE n

IsNaN(n) == n = NaN

\* `${n}` for an integer n.
RECURSIVE ToDecimal(_)
ToDecimal(n) ==
  IF n < 0 THEN <<"-">> \o ToDecimal(0 - n)
  ELSE IF n < 10 THEN <<DigitChar(n)>>
  ELSE ToDecimal(n \div 10) \o <<DigitChar(n % 10)>>

\* throw new Error(msg) / return {sandboxId, port} of parseSandboxInfo.
Thrown(msg) == [ok |-> FALSE, error |-> msg, sandboxId |-> <<>>, port |-> 0]

Returned(id, port) == [ok |-> TRUE, error |-> "", sandboxId |-> id, port |-> port]

\* parseSandboxInfo (58-91).
parseSandboxInfo(host) ==
  LET parts == Split(host, ".")
      subdomain == parts[1]
      subdomainParts == Split(subdomain, "-")
      portStr == subdomainParts[1]
      port == ParseInt(portStr)
      sandboxId == Join(SliceFrom(subdomainParts, 1), "-")
  IN  IF Len(parts) < 2 THEN Thrown("Invalid host format")
      ELSE IF subdomain = <<>> THEN Thrown("Invalid subdomain")
      ELSE IF Len(subdomainParts) < 2 THEN Thrown("Invalid subdomain format")
      ELSE IF portStr = <<>> THEN Thrown("Port is missing from subdomain")
      ELSE IF IsNaN(port) THEN Thrown("Invalid port number")
      ELSE Returned(sandboxId, port[1])

\* A test that accepts lower-case digits only (the regular expression
\* without its i flag).
IsHexLowerOnly(c) ==
  c \in DecimalDigits \cup {"a", "b", "c", "d", "e", "f"}

\* [0-9a-f] under the i flag (104).
IsHex(c) ==
  c \in DecimalDigits \cup {"a", "b", "c", "d", "e", "f", "A", "B", "C", "D", "E", "F"}

\* /^[0-9a-f]{32}$/i.test(s) (104).
LooksLikeUuid(s) == Len(s) = 32 /\ \A i \in 1..Len(s) : IsHex(s[i])

\* restoreUuidFormat (97-111).
restoreUuidFormat(sandboxId) ==
  IF Includes(sandboxId, "-")
  THEN sandboxId
  ELSE IF LooksLikeUuid(sandboxId)
       THEN Slice(sandboxId, 0, 8) \o <<"-">> \o Slice(sandboxId, 8, 12) \o <<"-">>
            \o Slice(sandboxId, 12, 16) \o <<"-">> \o Slice(sandboxId, 16, 20) \o <<"-">>
            \o SliceFrom(sandboxId, 20)
       ELSE sandboxId

\* `${sandboxId}:${port}` (117).
CacheKey(sandboxId, port) == sandboxId \o <<":">> \o ToDecimal(port)

\* An entry stamped with the start of the epoch instead of the time of the write.
CacheEntryNoStamp(url, t) == [url |-> url, timestamp |-> 0]

\* {url, timestamp} (31-34, 138-141).
CacheEntry(url, t) == [url |-> url, timestamp |-> t]

\* A read that still serves an entry whose age equals the TTL.
FreshInclusive(entry, t) == t - entry.timestamp <= CACHE_TTL

\* The age test of a read (121) and of the sweep (43).
Fresh(entry, t) == t - entry.timestamp < CACHE_TTL

Expired(entry, t) == t - entry.timestamp > CACHE_TTL

\* A set that keeps the entry a key already has (the first write wins).
MapSetKeepsFirst(m, key, entry) ==
  [k \in DOMAIN m \cup {key} |-> IF k \in DOMAIN m THEN m[k] ELSE entry]

\* urlCache.set(key, entry) and the Map without the keys in `gone`.
MapSet(m, key, entry) ==
  [k \in DOMAIN m \cup {key} |-> IF k = key THEN entry ELSE m[k]]

MapWithout(m, gone) == [k \in DOMAIN m \ gone |-> m[k]]

EmptyMap == [k \in {} |-> CacheEntry(<<>>, 0)]

\* previewLink.url the provider hands out for a sandbox and a port while its
\* links are of generation g.
PreviewLink(id, port, g) == <<"https", id, port, g>>

\* The host headers of the run: two ports of one sandbox, a host with no
\* hyphen in its first label, and a request without a host header.
HostA == <<"4", "0", "-", "a", "b", ".", "x">>

HostB == <<"4", "-", "a", "b", ".", "x">>

HostNoHyphen == <<"a", "b", ".", "x">>

HostHeaders == {Some(HostA), Some(HostB), Some(HostNoHyphen), Null}

MsgNoHost == "Host header is required"
MsgDaytona == "provider call failed"

IdlePReq ==
  [pc |-> "idle", host |-> Null, decoded |-> FALSE, sandboxId |-> <<>>, port |-> 0,
   calls |-> 0, hit |-> FALSE, targetUrl |-> Null, proxyError |-> Null,
   forwarded |-> FALSE, status |-> 0, error |-> "none"]

\* The catch of the router (191-195): the error is kept on the request and
\* the dummy target is returned.
RouterCatch(rq, p, msg) ==
  [rq EXCEPT ![p].pc = "routed", ![p].proxyError = Some(msg)]

\* A request arrives; the router (176-196) decodes its host and getPreviewUrl
\* (116-131) runs up to its first await: a fresh entry is returned at once,
\* else daytona.get is called with the restored identifier.
Route(p, h) ==
  /\ preqs[p].pc = "idle"
  /\ IF p = 1 THEN TRUE ELSE preqs[p - 1].pc # "idle"
  /\ LET rq == [preqs EXCEPT ![p].host = h]
         info == parseSandboxInfo(Val(h))
         cacheKey == CacheKey(info.sandboxId, info.port)
         found == [rq EXCEPT ![p].decoded = TRUE, ![p].sandboxId = info.sandboxId,
                            ![p].port = info.port]
     IN  IF ~Present(h)
         THEN preqs' = RouterCatch(rq, p, MsgNoHost)
         ELSE IF ~info.ok
         THEN preqs' = RouterCatch(rq, p, info.error)
         ELSE IF cacheKey \in DOMAIN urlCache
         THEN IF Fresh(urlCache[cacheKey], time)
              THEN preqs' = [found EXCEPT ![p].pc = "routed", ![p].hit = TRUE,
                                         ![p].targetUrl = Some(urlCache[cacheKey].url)]
              ELSE preqs' = [found EXCEPT ![p].pc = "get", ![p].calls = @ + 1]
         ELSE preqs' = [found EXCEPT ![p].pc = "get", ![p].calls = @ + 1]
  /\ UNCHANGED <<urlCache, time, gen, input, output, actor, core>>

\* daytona.get(daytonaSandboxId) resolves or throws (131); then
\* sandbox.getPreviewLink(port) is called (134).
GetEnd(p) ==
  /\ preqs[p].pc = "get"
  /\ \E outcome \in {"ok", "throw"} :
       preqs' = IF outcome = "ok"
                THEN [preqs EXCEPT ![p].pc = "link"]
                ELSE RouterCatch(preqs, p, MsgDaytona)
  /\ UNCHANGED <<urlCache, time, gen, input, output, actor, core>>

\* A lookup that, when getPreviewLink throws, stamps the entry the key
\* already has with the current time.
LinkEndRevivesOnFailure(p) ==
  /\ preqs[p].pc = "link"
  /\ \E outcome \in {"ok", "throw"} :
       LET cacheKey == CacheKey(preqs[p].sandboxId, preqs[p].port)
           previewUrl == PreviewLink(restoreUuidFormat(preqs[p].sandboxId),
                                     preqs[p].port, gen)
       IN  IF outcome = "ok"
           THEN /\ urlCache' = MapSet(urlCache, cacheKey, CacheEntry(previewUrl, time))
                /\ preqs' = [preqs EXCEPT ![p].pc = "routed",
                                          ![p].targetUrl = Some(previewUrl)]
           ELSE /\ preqs' = RouterCatch(preqs, p, MsgDaytona)
                /\ urlCache' = IF cacheKey \in DOMAIN urlCache
                               THEN MapSet(urlCache, cacheKey,
                                           CacheEntry(urlCache[cacheKey].url, time))
                               ELSE urlCache
  /\ UNCHANGED <<time, gen, input, output, actor, core>>

\* getPreviewLink resolves or throws (134); on success the entry is written
\* with the clock reading of that moment and the url is returned (135-145).
LinkEnd(p) ==
  /\ preqs[p].pc = "link"
  /\ \E outcome \in {"ok", "throw"} :
       IF outcome = "ok"
       THEN LET previewUrl == PreviewLink(restoreUuidFormat(preqs[p].sandboxId),
                                          preqs[p].port, gen)
            IN  /\ urlCache' = MapSet(urlCache, CacheKey(preqs[p].sandboxId, preqs[p].port),
                                      CacheEntry(previewUrl, time))
                /\ preqs' = [preqs EXCEPT ![p].pc = "routed",
                                          ![p].targetUrl = Some(previewUrl)]
       ELSE /\ preqs' = RouterCatch(preqs, p, MsgDaytona)
            /\ urlCache' = urlCache
  /\ UNCHANGED <<time, gen, input, output, actor, core>>

\* The response leaves with status `code`; the request and what the router
\* kept on it are gone.
Respond(rq, p, code) ==
  [rq EXCEPT ![p].pc = "done", ![p].status = code, ![p].host = Null,
             ![p].sandboxId = <<>>, ![p].port = 0, ![p].targetUrl = Null,
             ![p].proxyError = Null]

\* sendError (155-172): the status and the `error` field of the JSON body.
SendError(rq, p, code, kind) == Respond([rq EXCEPT ![p].error = kind], p, code)

\* The proxy request is made for the router's target.  With a routing error
\* it is destroyed (210-213) and the error handler answers 500 ProxyError
\* (256-263); else it goes to the sandbox, whose answer passes through, or
\* the connection fails and the error handler answers 502 BadGateway (265-271).
Forward(p) ==
  /\ preqs[p].pc = "routed"
  /\ IF Present(preqs[p].proxyError)
     THEN preqs' = SendError(preqs, p, 500, "ProxyError")
     ELSE \E outcome \in {"answered", "refused"} :
            LET rq == [preqs EXCEPT ![p].forwarded = TRUE]
            IN  preqs' = IF outcome = "answered"
                         THEN Respond(rq, p, 200)
                         ELSE SendError(rq, p, 502, "BadGateway")
  /\ UNCHANGED <<urlCache, time, gen, input, output, actor, core>>

\* The sweep (39-51).
Sweep ==
  /\ urlCache' = MapWithout(urlCache, {k \in DOMAIN urlCache : Expired(urlCache[k], time)})
  /\ UNCHANGED <<time, gen, preqs, input, output, actor, core>>

\* The clock of the proxy process moves on by one sweep period.
Tick ==
  /\ time < MaxTicks * SweepInterval
  /\ time' = time + SweepInterval
  /\ UNCHANGED <<urlCache, gen, preqs, input, output, actor, core>>

\* The provider changes the preview links it hands out (the sandbox was
\* restarted).
Recreate ==
  /\ gen < MaxGen
  /\ gen' = gen + 1
  /\ UNCHANGED <<urlCache, time, preqs, input, output, actor, core>>

\* The backend before any container or workspace exists.
NoInstances == [h \in {} |-> "started"]

\* new Map() of the SessionManager constructor (10).
NoSessions == [id \in {} |-> [status |-> "provisioning", expiresAt |-> 0]]

\* The provider of packages/core before its first call.
ProviderIdle ==
  /\ variant = "docker"
  /\ instances = NoInstances
  /\ fault = "none"
  /\ cleanupFault = "none"
  /\ result = Null
  /\ calls = 0

\* The session manager of packages/core after construction.
ManagerIdle ==
  /\ sessions = NoSessions
  /\ clock = 0
  /\ ulids = 0
  /\ expired = Null
  /\ sweeps = 0

\* The proxy process before its first request, with no function under test.
ProxyIdle ==
  /\ urlCache = EmptyMap
  /\ time = 0
  /\ gen = 0
  /\ preqs = [p \in PReqs |-> IdlePReq]
  /\ input = Null
  /\ output = Null

\* The session actor before its first request, in a production deployment.
ActorIdle ==
  /\ Init
  /\ envSandbox = TRUE
  /\ envExpose = TRUE

ProxyInit == ActorIdle /\ ProxyIdle /\ ProviderIdle /\ ManagerIdle

ProxyNext ==
  \/ \E p \in PReqs, h \in HostHeaders : Route(p, h)
  \/ \E p \in PReqs : GetEnd(p)
  \/ \E p \in PReqs : LinkEnd(p)
  \/ \E p \in PReqs : Forward(p)
  \/ Sweep
  \/ Tick
  \/ Recreate

\* The proxy alone, the session actor at rest.
ProxySpec == ProxyInit /\ [][ProxyNext]_vars

\* The host alphabet: a digit, a second digit, a letter, the hyphen, the dot.
HostChars == {"4", "0", "a", "-", "."}

Hosts == UNION {[1..n -> HostChars] : n \in 0..MaxHostLen}

\* parseSandboxInfo is applied to the host drawn at the start.
Decode ==
  /\ output = Null
  /\ output' = Some(parseSandboxInfo(input))
  /\ UNCHANGED <<urlCache, time, gen, preqs, input, actor, core>>

DecodeInit ==
  /\ ActorIdle
  /\ urlCache = EmptyMap /\ time = 0 /\ gen = 0
  /\ preqs = [p \in PReqs |-> IdlePReq]
  /\ input \in Hosts
  /\ output = Null
  /\ ProviderIdle
  /\ ManagerIdle

DecodeSpec == DecodeInit /\ [][Decode]_vars

\* The identifier of the source's comment (95), 9cbb20f460984cd6ba1cdaf96c2ff9b3.
UuidBase ==
  <<"9", "c", "b", "b", "2", "0", "f", "4", "6", "0", "9", "8", "4", "c", "d", "6",
    "b", "a", "1", "c", "d", "a", "f", "9", "6", "c", "2", "f", "f", "9", "b", "3">>

UpperChar(c) ==
  CASE c = "a" -> "A" [] c = "b" -> "B" [] c = "c" -> "C" [] c = "d" -> "D"
    [] c = "e" -> "E" [] c = "f" -> "F" [] OTHER -> c

ToUpperCase(s) == [i \in 1..Len(s) |-> UpperChar(s[i])]

\* An upper-case hexadecimal digit, a letter that is no hexadecimal digit,
\* and the hyphen.
OddChars == {"F", "g", "-"}

\* The identifiers handed to restoreUuidFormat: the base, the base in upper
\* case, the base with one character replaced, its prefixes, the base with
\* one character more, and the base already hyphenated.
Identifiers ==
  {UuidBase, ToUpperCase(UuidBase), restoreUuidFormat(UuidBase)}
    \cup {[UuidBase EXCEPT ![i] = c] : i \in 1..Len(UuidBase), c \in OddChars}
    \cup {SubSeq(UuidBase, 1, n) : n \in 0..Len(UuidBase)}
    \cup {Append(UuidBase, c) : c \in OddChars \cup {"0"}}

\* restoreUuidFormat is applied to the identifier drawn at the start.
Restore ==
  /\ output = Null
  /\ output' = Some(restoreUuidFormat(input))
  /\ UNCHANGED <<urlCache, time, gen, preqs, input, actor, core>>

RestoreInit ==
  /\ ActorIdle
  /\ urlCache = EmptyMap /\ time = 0 /\ gen = 0
  /\ preqs = [p \in PReqs |-> IdlePReq]
  /\ input \in Identifiers
  /\ output = Null
  /\ ProviderIdle
  /\ ManagerIdle

RestoreSpec == RestoreInit /\ [][Restore]_vars

(***************************************************************************)
(* The sandbox providers of packages/core: DockerProvider                  *)
(* (unnamed/part_010), DaytonaProvider and its stub                        *)
(* (packages/core/src/utils/errors.ts).  A message is the sequence of the  *)
(* pieces its template string joins, so that what a message contains is    *)
(* computed.  The caller makes one provider call at a time.                 *)
(***************************************************************************)

\* Number of provider calls in one run.
MaxCalls == 3

\* Number of containers / workspaces the backend hands out in one run.
MaxHandles == 2

Handles == 1..MaxHandles

\* The provider classes of the source.
Variants == {"docker", "daytona", "stub"}

\* The `provider` argument each class gives its SandboxProvisionError.
Backend(v) == IF v = "docker" THEN "docker" ELSE "daytona"

\* new Error(message).
ErrorOf(message) == [name |-> "Error", message |-> message, provider |-> Null]

\* new SandboxProvisionError(message, provider) (errors.ts 13-21).
SandboxProvisionError(message, prov) ==
  [name |-> "SandboxProvisionError", message |-> message, provider |-> Some(prov)]

\* `${error}` for an Error object: Error.prototype.toString().
ErrorToString(e) == <<e.name, ": ">> \o e.message

\* What the internal step `step` raises when it fails: DockerProvider.exec
\* (45-47), waitForContainer (182), or a call of the Daytona SDK.
Underlying(v, step) ==
  IF v = "docker"
  THEN IF step = "wait"
       THEN ErrorOf(<<"Container failed to start within timeout">>)
       ELSE ErrorOf(<<"Docker command failed: ", step>>)
  ELSE ErrorOf(<<"Daytona SDK call failed: ", step>>)

\* The internal steps the backend can fail in a call of method `op` for
\* handle h ("none": no step fails): the steps the call gets to while the
\* instances are m.  The stub has no internal step.
FaultSteps(v, op, m, h) ==
  LET exists == h \in DOMAIN m
      started == IF exists THEN m[h] = "started" ELSE FALSE
  IN  CASE v = "docker" /\ op = "provision" -> {"none", "version", "pull", "run", "port", "wait"}
        [] v = "docker" /\ op = "getStatus" -> {"none", "inspect"}
        [] v = "docker" /\ op = "terminate" -> {"none", "stop", "rm"}
        [] v = "daytona" /\ op = "provision" -> {"none", "create", "link", "start", "wait"}
        [] v = "daytona" /\ op = "getStatus" ->
             IF started THEN {"none", "get", "link"} ELSE {"none", "get"}
        [] v = "daytona" /\ op = "terminate" ->
             IF exists THEN {"none", "get", "stop", "delete"} ELSE {"none", "get"}
        [] OTHER -> {"none"}

\* The steps the backend can fail in the cleanup of a provision that failed
\* in `step`: those of DockerProvider.terminate (part_010 146-151); the
\* other classes have no cleanup.
CleanupSteps(v, step) ==
  IF v = "docker" /\ step # "none" THEN {"none", "stop", "rm"} ELSE {"none"}

\* How an async method ends, and the backend's instances at that moment:
\* the promise resolves with a value or rejects with an error.
Resolved(op, h, value, m) ==
  [op |-> op, handle |-> h, kind |-> "resolved", value |-> Some(value), error |-> Null,
   instances |-> m]

ResolvedVoid(op, h, m) ==
  [op |-> op, handle |-> h, kind |-> "resolved", value |-> Null, error |-> Null,
   instances |-> m]

Rejected(op, h, e, m) ==
  [op |-> op, handle |-> h, kind |-> "rejected", value |-> Null, error |-> Some(e),
   instances |-> m]

\* `http://127.0.0.1:${hostPort}` and previewLink.url of instance h.
EndpointUrl(h) == <<"url", h>>

\* SandboxResult and SandboxStatus (types.ts 44-55).
SandboxResult(h) == [id |-> h, url |-> EndpointUrl(h), status |-> "ready"]

SandboxStatus(h, status, url, error) ==
  [id |-> h, status |-> status, url |-> url, error |-> error]

\* The instances with h in state st, and without h.
WithInstance(m, h, st) == [k \in DOMAIN m \cup {h} |-> IF k = h THEN st ELSE m[k]]

WithoutInstance(m, h) == [k \in DOMAIN m \ {h} |-> m[k]]

\* DockerProvider.terminate (238-260): both commands sit in their own
\* try/catch; `docker rm -f` removes the container unless that command fails.
DockerTerminate(m, h, step) ==
  ResolvedVoid("terminate", h, IF step = "rm" THEN m ELSE WithoutInstance(m, h))

\* A provision whose catch block wraps the error and cleans nothing up.
DockerProvisionNoCleanup(m, h, step, cleanup) ==
  IF step = "none"
  THEN Resolved("provision", h, SandboxResult(h), WithInstance(m, h, "started"))
  ELSE Rejected("provision", h,
         SandboxProvisionError(
           <<"Failed to provision Docker container: ">>
             \o ErrorToString(Underlying("docker", step)), "docker"),
         IF step \in {"port", "wait"} THEN WithInstance(m, h, "started") ELSE m)

\* DockerProvider.provision (69-158), the container it starts being h (the
\* name given to `docker run` and the id it prints denote that container).
\* A failed availability check throws its own SandboxProvisionError inside
\* the try (79-86); once `docker run` returned (119) the container exists,
\* also when `docker port` (123) or waitForContainer (135, 163-183) throws.
\* Every throw is caught at 143; the cleanup calls terminate on the
\* container's name and ignores what it raises (146-151), `cleanup` being
\* the step of that call the backend fails; then the error is wrapped
\* (153-156).
DockerProvision(m, h, step, cleanup) ==
  LET caught == IF step = "version"
                THEN SandboxProvisionError(
                       <<"Docker is not available. Please ensure Docker is installed and running.">>,
                       "docker")
                ELSE Underlying("docker", step)
      started == IF step \in {"port", "wait"} THEN WithInstance(m, h, "started") ELSE m
  IN  IF step = "none"
      THEN Resolved("provision", h, SandboxResult(h), WithInstance(m, h, "started"))
      ELSE Rejected("provision", h,
             SandboxProvisionError(
               <<"Failed to provision Docker container: ">> \o ErrorToString(caught), "docker"),
             DockerTerminate(started, h, cleanup).instances)

\* DaytonaProvider.provision (200-239).  waitForServerReady (294-324) ends
\* without an error when no probe succeeded (its throw is commented out,
\* 323), so provision goes on to return ready.  The catch (232-238) deletes
\* nothing: the workspace stays once daytona.create succeeded.
DaytonaProvision(m, h, step) ==
  IF step \in {"none", "wait"}
  THEN Resolved("provision", h, SandboxResult(h), WithInstance(m, h, "started"))
  ELSE Rejected("provision", h,
         SandboxProvisionError(
           <<"Failed to provision Daytona workspace: ">>
             \o ErrorToString(Underlying("daytona", step)), "daytona"),
         IF step = "create" THEN m ELSE WithInstance(m, h, "started"))

\* The stub's provision (errors.ts 125-135).
StubProvision(m, h) ==
  Rejected("provision", h,
    SandboxProvisionError(<<"Daytona provisioning not yet implemented">>, "daytona"), m)

\* DockerProvider.getStatus (188-233): `docker inspect` fails for a
\* container that does not exist.
DockerGetStatus(m, h, step) ==
  IF step = "inspect" \/ h \notin DOMAIN m
  THEN Resolved("getStatus", h,
         SandboxStatus(h, "error", Null,
           Some(<<"Failed to get container status: ">>
                  \o ErrorToString(Underlying("docker", "inspect")))), m)
  ELSE IF m[h] = "stopped"
  THEN Resolved("getStatus", h,
         SandboxStatus(h, "terminated", Null, Some(<<"Container exited with code ">>)), m)
  ELSE IF m[h] = "paused"
  THEN Resolved("getStatus", h,
         SandboxStatus(h, "error", Null, Some(<<"Container is paused">>)), m)
  ELSE Resolved("getStatus", h, SandboxStatus(h, "ready", Some(EndpointUrl(h)), Null), m)

\* DaytonaProvider.getStatus (329-369): daytona.get rejects for a workspace
\* that does not exist.
DaytonaGetStatus(m, h, step) ==
  LET failed(s) ==
        Resolved("getStatus", h,
          SandboxStatus(h, "error", Null,
            Some(<<"Failed to get workspace status: ">>
                   \o ErrorToString(Underlying("daytona", s)))), m)
  IN  IF step = "get" \/ h \notin DOMAIN m
      THEN failed("get")
      ELSE IF m[h] = "started"
      THEN IF step = "link"
           THEN failed("link")
           ELSE Resolved("getStatus", h,
                  SandboxStatus(h, "ready", Some(EndpointUrl(h)), Null), m)
      ELSE IF m[h] = "stopped"
      THEN Resolved("getStatus", h, SandboxStatus(h, "terminated", Null, Null), m)
      ELSE Resolved("getStatus", h, SandboxStatus(h, "error", Null, Null), m)

\* The stub's getStatus (errors.ts 140-143).
StubGetStatus(m, h) == Rejected("getStatus", h, ErrorOf(<<"Not implemented">>), m)

\* DaytonaProvider.terminate (374-391): daytona.get rejects for a workspace
\* that does not exist, and the catch rethrows what the try raised.
DaytonaTerminate(m, h, step) ==
  LET failing == IF h \notin DOMAIN m THEN "get" ELSE step
      rejected(after) ==
        Rejected("terminate", h,
          ErrorOf(<<"Failed to terminate Daytona workspace: ">>
                    \o ErrorToString(Underlying("daytona", failing))), after)
  IN  IF failing = "none" THEN ResolvedVoid("terminate", h, WithoutInstance(m, h))
      ELSE IF failing = "delete" THEN rejected(WithInstance(m, h, "stopped"))
      ELSE rejected(m)

\* The stub's terminate (errors.ts 148-151).
StubTerminate(m, h) == Rejected("terminate", h, ErrorOf(<<"Not implemented">>), m)

\* The outcome without the backend's instances: what the caller sees.
Outcome(r) ==
  [op |-> r.op, handle |-> r.handle, kind |-> r.kind, value |-> r.value, error |-> r.error]

\* provider.provision(config) is called and runs to its end; the backend
\* hands out a handle it has not handed out before.
ProviderProvision(h, step, cleanup) ==
  /\ calls < MaxCalls
  /\ h \notin DOMAIN instances
  /\ \A k \in Handles : k < h => k \in DOMAIN instances
  /\ step \in FaultSteps(variant, "provision", instances, h)
  /\ cleanup \in CleanupSteps(variant, step)
  /\ LET r == CASE variant = "docker" -> DockerProvision(instances, h, step, cleanup)
                [] variant = "daytona" -> DaytonaProvision(instances, h, step)
                [] variant = "stub" -> StubProvision(instances, h)
     IN  /\ result' = Some(Outcome(r))
         /\ instances' = r.instances
  /\ fault' = step
  /\ cleanupFault' = cleanup
  /\ calls' = calls + 1
  /\ UNCHANGED <<variant, actor, proxy, manager>>

\* provider.getStatus(h) is called and runs to its end.
ProviderGetStatus(h, step) ==
  /\ calls < MaxCalls
  /\ step \in FaultSteps(variant, "getStatus", instances, h)
  /\ LET r == CASE variant = "docker" -> DockerGetStatus(instances, h, step)
                [] variant = "daytona" -> DaytonaGetStatus(instances, h, step)
                [] variant = "stub" -> StubGetStatus(instances, h)
     IN  /\ result' = Some(Outcome(r))
         /\ instances' = r.instances
  /\ fault' = step
  /\ cleanupFault' = "none"
  /\ calls' = calls + 1
  /\ UNCHANGED <<variant, actor, proxy, manager>>

\* provider.terminate(h) is called and runs to its end.
ProviderTerminate(h, step) ==
  /\ calls < MaxCalls
  /\ step \in FaultSteps(variant, "terminate", instances, h)
  /\ LET r == CASE variant = "docker" -> DockerTerminate(instances, h, step)
                [] variant = "daytona" -> DaytonaTerminate(instances, h, step)
                [] variant = "stub" -> StubTerminate(instances, h)
     IN  /\ result' = Some(Outcome(r))
         /\ instances' = r.instances
  /\ fault' = step
  /\ cleanupFault' = "none"
  /\ calls' = calls + 1
  /\ UNCHANGED <<variant, actor, proxy, manager>>

\* The backend stops or pauses an instance on its own (a container exits,
\* a workspace reaches its auto-stop interval).
BackendChange(h, st) ==
  /\ h \in DOMAIN instances
  /\ instances[h] = "started"
  /\ instances' = WithInstance(instances, h, st)
  /\ UNCHANGED <<variant, fault, cleanupFault, result, calls, actor, proxy, manager>>

\* A provider of any of the classes before its first call.
ProviderInit ==
  /\ ActorIdle
  /\ ProxyIdle
  /\ ManagerIdle
  /\ variant \in Variants
  /\ instances = NoInstances
  /\ fault = "none"
  /\ cleanupFault = "none"
  /\ result = Null
  /\ calls = 0

AllFaultSteps ==
  {"none", "version", "pull", "run", "port", "wait", "inspect", "stop", "rm",
   "create", "link", "start", "get", "delete"}

ProviderNext ==
  \/ \E h \in Handles, step \in AllFaultSteps, cleanup \in {"none", "stop", "rm"} :
       ProviderProvision(h, step, cleanup)
  \/ \E h \in Handles, step \in AllFaultSteps : ProviderGetStatus(h, step)
  \/ \E h \in Handles, step \in AllFaultSteps : ProviderTerminate(h, step)
  \/ \E h \in Handles, st \in {"stopped", "paused"} : BackendChange(h, st)

\* The provider alone, the actor, the proxy and the session manager at rest.
ProviderSpec == ProviderInit /\ [][ProviderNext]_vars

(***************************************************************************)
(* The SessionManager of packages/core (src/sandbox/session.ts): an        *)
(* in-memory Map of sessions, all of whose methods are synchronous.        *)
(***************************************************************************)

\* Number of sessions created in one run.
MaxSessions == 2

\* Number of cleanup() calls in one run.
MaxSweeps == 2

\* Number of times the server clock moves on in one run.
MaxClockTicks == 3

\* Milliseconds the clock moves on by between two readings that differ.
ClockStep == 500

\* Values of config.sandbox.sessionTimeout (seconds) in the run.
SessionTimeouts == {0, 1}

\* The Session create() builds (23-35); id is the ordinal of the ulid.
NewManagedSession(id, t, sessionTimeout) ==
  [id |-> id, status |-> "provisioning", createdAt |-> t, lastAccessedAt |-> t,
   expiresAt |-> t + sessionTimeout * 1000]

\* A filter that also takes the sessions expiring at this very millisecond.
FindExpiredInclusive(m, t) == {id \in DOMAIN m : m[id].expiresAt <= t}

\* The ids findExpired() selects at time t (102-107).
FindExpired(m, t) == {id \in DOMAIN m : m[id].expiresAt < t}

\* Array.from(this.sessions.values()) restricted to the ids in S: a Map
\* iterates in insertion order, which is the order of the ulids.
RECURSIVE ValuesOf(_, _)
ValuesOf(m, S) ==
  IF S = {}
  THEN <<>>
  ELSE LET id == CHOOSE x \in S : \A y \in S : x <= y
       IN  <<m[id]>> \o ValuesOf(m, S \ {id})

\* create(...) (16-39).
Create(sessionTimeout) ==
  /\ ulids < MaxSessions
  /\ ulids' = ulids + 1
  /\ sessions' = [id \in DOMAIN sessions \cup {ulids + 1} |->
                    IF id = ulids + 1
                    THEN NewManagedSession(ulids + 1, clock, sessionTimeout)
                    ELSE sessions[id]]
  /\ UNCHANGED <<clock, expired, sweeps, actor, proxy, provider>>

\* update(sessionId, {status}) for a stored session (75-83).
Update(id, status) ==
  /\ id \in DOMAIN sessions
  /\ sessions[id].status # status
  /\ sessions' = [sessions EXCEPT ![id].status = status, ![id].lastAccessedAt = clock]
  /\ UNCHANGED <<clock, ulids, expired, sweeps, actor, proxy, provider>>

\* delete(sessionId) (88-90).
Delete(id) ==
  /\ id \in DOMAIN sessions
  /\ sessions' = [k \in DOMAIN sessions \ {id} |-> sessions[k]]
  /\ UNCHANGED <<clock, ulids, expired, sweeps, actor, proxy, provider>>

\* cleanup() (112-118): findExpired, then the deletes, then the return.
Cleanup ==
  /\ sweeps < MaxSweeps
  /\ LET ids == FindExpired(sessions, clock)
     IN  /\ expired' = Some(ValuesOf(sessions, ids))
         /\ sessions' = [k \in DOMAIN sessions \ ids |-> sessions[k]]
  /\ sweeps' = sweeps + 1
  /\ UNCHANGED <<clock, ulids, actor, proxy, provider>>

\* Time passes in the server process.
ClockTick ==
  /\ clock < MaxClockTicks * ClockStep
  /\ clock' = clock + ClockStep
  /\ UNCHANGED <<sessions, ulids, expired, sweeps, actor, proxy, provider>>

ManagerInit ==
  /\ ActorIdle
  /\ ProxyIdle
  /\ ProviderIdle
  /\ ManagerIdle

ManagerNext ==
  \/ \E sessionTimeout \in SessionTimeouts : Create(sessionTimeout)
  \/ \E id \in 1..MaxSessions, status \in {"ready", "error", "terminated"} : Update(id, status)
  \/ \E id \in 1..MaxSessions : Delete(id)
  \/ Cleanup
  \/ ClockTick

\* The session manager alone.
ManagerSpec == ManagerInit /\ [][ManagerNext]_vars

\* The session actor alone, the proxy and packages/core at rest.
SpecInit == Init /\ ProxyIdle /\ ProviderIdle /\ ManagerIdle

Spec == SpecInit /\ [][Next]_vars

\* storage.get rejects: loadSession (316-321) is awaited at line 17, before
\* the try block of fetch, so the promise fetch returned rejects and the
\* request ends without a Response.
LoadFails(r) ==
  /\ reqs[r].pc = "loading"
  /\ reqs' = [reqs EXCEPT ![r].pc = "done", ![r].loaded = Null]
  /\ lastDone' = reqs[r].kind
  /\ UNCHANGED <<session, storage, live, now, envSandbox, envExpose, proxy, core, attempts, first>>

FaultNext ==
  \/ Next
  \/ \E r \in Reqs : LoadFails(r)

\* The session actor on a storage whose reads can fail.
StorageFaultSpec == SpecInit /\ [][FaultNext]_vars

\* Requests that have nothing to do with the session's sandbox: a POST whose
\* body is not JSON, a POST whose body names no create action, a request
\* with a method fetch does not handle.
InvalidKinds == {"badjson", "noaction", "method"}

MsgSyntaxError == "Unexpected token in JSON"

\* `await request.json()` (22) rejects inside fetch's try: the catch block
\* (66-83) runs.
RejectBody(r) ==
  /\ reqs[r].pc = "handle" /\ reqs[r].kind = "badjson"
  /\ OuterCatch(reqs, r, MsgSyntaxError)
  /\ UNCHANGED <<live, now, envSandbox, envExpose, proxy, core, attempts, first>>

\* No branch of fetch returns: the 405 response (62-65).
MethodNotAllowed(r) ==
  /\ reqs[r].pc = "handle" /\ reqs[r].kind \in {"noaction", "method"}
  /\ reqs' = Finish(reqs, r, Response(405, NoBody))
  /\ lastDone' = reqs[r].kind
  /\ UNCHANGED <<session, storage, live, now, envSandbox, envExpose, proxy, core, attempts, first>>

InvalidNext ==
  \/ Next
  \/ \E r \in Reqs, kind \in InvalidKinds : Start(r, kind)
  \/ \E r \in Reqs : RejectBody(r)
  \/ \E r \in Reqs : MethodNotAllowed(r)

\* The session actor when requests of every kind reach it.
InvalidRequestSpec == SpecInit /\ [][InvalidNext]_vars

\* The actor is restarted while requests are in flight: the object and the
\* requests running on it are gone (they get no response and never
\* resume); the next request runs on a new object whose session field is
\* null (8-13) and loads what storage holds (316-321).
Restart ==
  /\ ~Quiescent
  /\ session' = Null
  /\ reqs' = [r \in Reqs |->
                IF InFlight(r)
                THEN [reqs[r] EXCEPT !.pc = "done", !.loaded = Null, !.sb = Null,
                                     !.err = Null, !.serverReady = FALSE,
                                     !.exposeThrew = FALSE]
                ELSE reqs[r]]
  /\ UNCHANGED <<storage, live, now, envSandbox, envExpose, proxy, core, attempts, first, lastDone>>

RestartNext == Next \/ Restart

\* The session actor on a platform that can restart it at any moment.
RestartSpec == SpecInit /\ [][RestartNext]_vars

(***************************************************************************)
(* Properties                                                              *)
(***************************************************************************)

Done(r) == reqs[r].pc = "done"

\* No request has arrived after request r.
NextIdle(r) == IF r = MaxReq THEN TRUE ELSE reqs[r + 1].pc = "idle"

\* The create requests that reached the actor before the first creation finished.
EarlyCreates == {r \in Reqs : reqs[r].kind = "create" /\ reqs[r].early}

\* C1: create requests for the same sessionId that reach the actor before the
\* first creation has finished all answer with the same session id, and the
\* provisioning sequence is started at most once (no delete takes part).
C1_SingleFlight ==
  (\A r \in Reqs : reqs[r].kind # "delete") =>
     /\ Cardinality({r \in EarlyCreates : reqs[r].provisioned}) <= 1
     /\ Cardinality({r \in EarlyCreates : reqs[r].accepted}) <= 1
     /\ \A r1, r2 \in EarlyCreates :
          Done(r1) /\ Done(r2) => Val(reqs[r1].resp).id = Val(reqs[r2].resp).id

\* C2: at every moment at most one sandbox instance of the sessionId is live
\* (started and not destroyed).
C2_AtMostOneLive == Cardinality(live) <= 1

\* Request r takes a step.
Steps(r) == reqs'[r] # reqs[r]

LiveStatuses == {"provisioning", "cloning", "starting", "ready"}

\* The body {id, url, status, createdAt} of response resp is that of record s.
BodyOf(resp, s) ==
  /\ resp.id = Some(s.id)
  /\ resp.url = s.url
  /\ resp.sstatus = Some(s.status)
  /\ resp.createdAt = Some(s.createdAt)

\* C3: a create request that finds a session in status provisioning, cloning,
\* starting or ready answers 200 with that session's id, url, status and
\* createdAt, modifies no field of the session in memory or in storage, starts
\* no instance and enters no provider step.
C3_ReuseChangesNothing ==
  [][\A r \in Reqs :
       ( /\ reqs[r].pc = "handle" /\ reqs[r].kind = "create"
         /\ Present(session) /\ Val(session).status \in LiveStatuses
         /\ Steps(r) )
       => /\ UNCHANGED <<session, storage, live, attempts, now>>
          /\ reqs'[r].pc = "done"
          /\ ~reqs'[r].accepted /\ ~reqs'[r].provisioned
          /\ Val(reqs'[r].resp).status = 200
          /\ BodyOf(Val(reqs'[r].resp), Val(session))]_vars

\* C3 witness: a create request was served the session in flight (cloning).
C3_Witness ==
  \E r \in Reqs :
    /\ reqs[r].kind = "create" /\ Done(r) /\ ~reqs[r].accepted
    /\ Val(reqs[r].resp).status = 200
    /\ Val(reqs[r].resp).sstatus = Some("cloning")

\* The edges of the lifecycle: provisioning -> cloning -> starting -> ready,
\* any of provisioning, cloning, starting -> error, any state -> terminated.
Edge(a, b) ==
  \/ a = b
  \/ a = "provisioning" /\ b = "cloning"
  \/ a = "cloning" /\ b = "starting"
  \/ a = "starting" /\ b = "ready"
  \/ a \in {"provisioning", "cloning", "starting"} /\ b = "error"
  \/ b = "terminated"

\* C4: the status of a session record changes only along the lifecycle edges
\* (a step that initialises a new record starts a new lifecycle).
C4_OnlyLifecycleEdges ==
  [][(Present(session) /\ Present(session') /\ attempts' = attempts)
       => Edge(Val(session).status, Val(session').status)]_vars

\* C5: once the session record is terminated, only an accepted new creation
\* changes its status or url.
C5_TerminatedIsTerminal ==
  [][(Present(session) /\ Val(session).status = "terminated"
        /\ Present(session') /\ attempts' = attempts)
       => Val(session').status = "terminated" /\ Val(session').url = Null]_vars

\* Request r is a delete that ran from arrival to its answer with no other
\* request in flight.
DeleteAlone(r) ==
  /\ reqs[r].kind = "delete"
  /\ reqs[r].prev # "concurrent"
  /\ NextIdle(r)

\* Request r is a delete that arrived right after a delete that ran alone
\* had been answered, with nothing in between.
SecondDelete(r) ==
  /\ r > 1
  /\ reqs[r].kind = "delete" /\ reqs[r].prev = "delete"
  /\ reqs[r - 1].kind = "delete" /\ reqs[r - 1].prev # "concurrent"
  /\ NextIdle(r)

\* C6: every DELETE is answered 204; a delete that runs alone gets 204 from
\* the actor as well, and a second delete in a row leaves the stored session
\* as the first left it (the only change to this.session is its reload from
\* storage).
C6_DeleteIdempotent ==
  [][\A r \in Reqs :
       /\ (reqs'[r].kind = "delete" /\ reqs'[r].pc = "done") => reqs'[r].http = 204
       /\ (DeleteAlone(r) /\ Steps(r) /\ reqs'[r].pc = "done")
            => Val(reqs'[r].resp).status = 204
       /\ (SecondDelete(r) /\ Steps(r))
            => /\ storage' = storage
               /\ session' = session \/ session' = storage]_vars

\* C6 witness: the second of two deletes in a row has been answered, on a
\* session that had an instance to destroy.
C6_Witness ==
  \E r \in Reqs :
    /\ SecondDelete(r) /\ Done(r)
    /\ Present(storage) /\ Val(storage).status = "terminated"
    /\ Present(Val(storage).sandboxId)

\* Request r is a GET that arrived after a DELETE that ran alone had been
\* answered, with nothing in between, and no request has arrived since.
GetAfterDelete(r) ==
  /\ r > 1
  /\ reqs[r].kind = "get" /\ Done(r)
  /\ reqs[r].prev = "delete"
  /\ reqs[r - 1].kind = "delete" /\ reqs[r - 1].prev # "concurrent"
  /\ NextIdle(r)

C8_CallerGetsActorStatus ==
  \A r \in Reqs :
    (reqs[r].kind = "create" /\ Done(r)) => reqs[r].http = Val(reqs[r].resp).status

CatchesNow(r) == reqs[r].err = Null /\ reqs'[r].err # Null

ExposeThrowsNow(r) == ~reqs[r].exposeThrew /\ reqs'[r].exposeThrew

CatchPcs == {"save_catch", "save_outer", "done"}

PollExhausts(r) ==
  /\ reqs[r].pc = "poll"
  /\ LET res == PollLoop(0, PollAttempts, "ready")
     IN  /\ ~res.serverReady /\ ~res.threw /\ res.probes = PollAttempts
         /\ AfterPoll([reqs EXCEPT ![r].serverReady = res.serverReady], r)
  /\ UNCHANGED <<live, now, envSandbox, envExpose, proxy, core, attempts, first>>

\* C11: when every probe of the readiness loop fails, the creation does not
\* fail: the attempt goes on to port exposure or sets the session to status
\* ready, never to error, and the request whose probes all failed answers
\* 200 once the ready session is saved.
C11_ExhaustedPollStillReady ==
  [][\A r \in Reqs :
       /\ PollExhausts(r) =>
            \/ reqs'[r].pc = "expose_port"
            \/ /\ reqs'[r].pc = "save_ready"
               /\ Present(session') /\ Val(session').status = "ready"
       /\ (reqs[r].pc = "save_ready" /\ ~reqs[r].serverReady /\ Steps(r)) =>
            /\ reqs'[r].pc = "done"
            /\ Val(reqs'[r].resp).status = 200
            /\ Val(reqs'[r].resp).sstatus = Some("ready")]_vars

\* C12: every session in status ready has a non-null url, whatever the
\* environment and whatever the outcome of the port exposure.
C12_ReadyHasUrl ==
  /\ (Present(session) /\ Val(session).status = "ready") => Present(Val(session).url)
  /\ (Present(storage) /\ Val(storage).status = "ready") => Present(Val(storage).url)

\* C13: a delete request for an existing session (status provisioning,
\* cloning, starting, ready or error) leaves the session with status
\* terminated and url null, whether destroy succeeds or throws, and is
\* answered 204.  Stated for a delete that ran alone from arrival to answer:
\* the session stored when it has answered is the one it left.
C13_DeleteLeavesTerminated ==
  \A r \in Reqs :
    (DeleteAlone(r) /\ Done(r) /\ Present(storage)) =>
       /\ Val(storage).status = "terminated"
       /\ Val(storage).url = Null
       /\ Val(reqs[r].resp).status = 204
       /\ reqs[r].http = 204

\* C14: a delete request that finds no session, or a session already
\* terminated, is a no-op: destroy is not invoked and the session in memory
\* and in storage, and the instances, stay as they are.
C14_DeleteOfTerminatedIsNoOp ==
  [][\A r \in Reqs :
       ( /\ reqs[r].kind = "delete" /\ reqs[r].pc = "handle" /\ Steps(r)
         /\ (Present(session) => Val(session).status = "terminated") )
       => /\ reqs'[r].pc = "done"
          /\ UNCHANGED <<session, storage, live>>]_vars

(***************************************************************************)
(* Properties of the proxy                                                 *)
(***************************************************************************)

\* The cache key of the lookup request p makes in this step.
KeyOf(p) == CacheKey(preqs'[p].sandboxId, preqs'[p].port)

\* getPreviewUrl hands request p a url in this step without a provider call.
ServedFromCache(p) ==
  /\ ~Present(preqs[p].targetUrl) /\ Present(preqs'[p].targetUrl)
  /\ preqs'[p].calls = 0

\* C15: the cache never serves a stale entry: whenever getPreviewUrl returns
\* a url without contacting the provider, the age of the entry it read (now
\* minus its timestamp) is below the TTL, under every interleaving of
\* lookups, sweeps and clock advance.
C15_NeverServesStale ==
  [][\A p \in PReqs :
       ServedFromCache(p) =>
          /\ KeyOf(p) \in DOMAIN urlCache
          /\ time - urlCache[KeyOf(p)].timestamp < CACHE_TTL
          /\ time' = time]_vars

\* C15 witness: a request has just been served an entry one sweep period
\* short of the TTL.
C15_Witness ==
  \E p \in PReqs :
    /\ preqs[p].pc = "routed" /\ preqs[p].calls = 0 /\ Present(preqs[p].targetUrl)
    /\ \E k \in DOMAIN urlCache :
         /\ k = CacheKey(preqs[p].sandboxId, preqs[p].port)
         /\ time - urlCache[k].timestamp = CACHE_TTL - SweepInterval
         /\ preqs[p].targetUrl = Some(urlCache[k].url)

\* Request p starts a lookup in this step (its host was decoded).
LookupStarts(p) == preqs[p].pc = "idle" /\ preqs'[p].pc # "idle" /\ preqs'[p].decoded

\* C16: a lookup within the TTL of the entry's write returns the cached url
\* and makes no provider call; a lookup once the TTL has elapsed (or with
\* no entry left) makes exactly one provider resolution and, when the
\* provider answers, returns its url and replaces the entry with that url
\* and the current timestamp.
C16_CacheLookup ==
  [][\A p \in PReqs :
       /\ (LookupStarts(p) /\ KeyOf(p) \in DOMAIN urlCache) =>
            /\ (time - urlCache[KeyOf(p)].timestamp < CACHE_TTL) =>
                 /\ preqs'[p].pc = "routed"
                 /\ preqs'[p].targetUrl = Some(urlCache[KeyOf(p)].url)
                 /\ preqs'[p].calls = 0
                 /\ urlCache' = urlCache
            /\ (time - urlCache[KeyOf(p)].timestamp >= CACHE_TTL) =>
                 /\ preqs'[p].pc = "get"
                 /\ preqs'[p].calls = 1
                 /\ urlCache' = urlCache
       /\ (LookupStarts(p) /\ KeyOf(p) \notin DOMAIN urlCache) =>
            /\ preqs'[p].pc = "get"
            /\ preqs'[p].calls = 1
       /\ (preqs[p].pc = "link" /\ Present(preqs'[p].targetUrl)) =>
            /\ preqs'[p].calls = 1
            /\ preqs'[p].targetUrl =
                 Some(PreviewLink(restoreUuidFormat(preqs[p].sandboxId), preqs[p].port, gen))
            /\ KeyOf(p) \in DOMAIN urlCache'
            /\ urlCache'[KeyOf(p)].url = Val(preqs'[p].targetUrl)
            /\ urlCache'[KeyOf(p)].timestamp = time
       /\ preqs'[p].calls <= 1]_vars

\* C16 witness: one request was served from the cache, and a later one,
\* after the TTL had elapsed, has just replaced the entry with the
\* provider's current url and the current timestamp.
C16_Witness ==
  \E p, q \in PReqs :
    /\ preqs[p].hit /\ preqs[p].pc = "done"
    /\ preqs[q].pc = "routed" /\ preqs[q].calls = 1 /\ Present(preqs[q].targetUrl)
    /\ time > CACHE_TTL
    /\ \E k \in DOMAIN urlCache :
         /\ k = CacheKey(preqs[q].sandboxId, preqs[q].port)
         /\ urlCache[k].timestamp = time
         /\ urlCache[k].url = PreviewLink(preqs[q].sandboxId, preqs[q].port, 1)

\* Index of the first c in s, 0 when s has none.
FirstIndex(s, c) ==
  IF \E i \in 1..Len(s) : s[i] = c
  THEN CHOOSE i \in 1..Len(s) : s[i] = c /\ \A j \in 1..(i - 1) : s[j] # c
  ELSE 0

\* The number a run of decimal digits denotes.
RECURSIVE DecimalValue(_)
DecimalValue(ds) ==
  IF ds = <<>>
  THEN 0
  ELSE DecimalValue(SubSeq(ds, 1, Len(ds) - 1)) * 10 + DigitValue(ds[Len(ds)])

\* The leftmost DNS label of a host.
LeftmostLabel(h) ==
  IF FirstIndex(h, ".") = 0 THEN h ELSE SubSeq(h, 1, FirstIndex(h, ".") - 1)

\* C17: for a host whose leftmost label is <decimal port>-<identifier>, the
\* decode returns that port as a number and as identifier everything after
\* the first hyphen (later hyphens kept); a host of a single label, with an
\* empty leftmost label or with no hyphen in its leftmost label is rejected.
C17_Decode ==
  Present(output) =>
    LET label == LeftmostLabel(input)
        hy == FirstIndex(label, "-")
        r == Val(output)
    IN  /\ (FirstIndex(input, ".") = 0 \/ label = <<>> \/ hy = 0) => ~r.ok
        /\ ( /\ FirstIndex(input, ".") > 0
             /\ hy > 1
             /\ \A i \in 1..(hy - 1) : label[i] \in DecimalDigits )
           => /\ r.ok
              /\ r.port = DecimalValue(SubSeq(label, 1, hy - 1))
              /\ r.sandboxId = SubSeq(label, hy + 1, Len(label))

\* C17 witness: a host was decoded to port 40 and an identifier that holds a
\* hyphen.
C17_Witness ==
  /\ Present(output)
  /\ Val(output).ok
  /\ Val(output).port = 40
  /\ Val(output).sandboxId = <<"a", "-">>

\* C18: a request whose address cannot be decoded is answered with a 4xx
\* status and is never forwarded to a sandbox.
C18_UndecodableIsClientError ==
  \A p \in PReqs :
    (preqs[p].pc = "done" /\ ~preqs[p].decoded) =>
       /\ preqs[p].status \in 400..499
       /\ ~preqs[p].forwarded

\* C19: the error body tells the two failures apart: the routing-error kind
\* ("ProxyError") is reported exactly when the address decoding failed, never
\* for a failure after a successful decode.
C19_KindTellsDecodeFailure ==
  \A p \in PReqs :
    (preqs[p].pc = "done" /\ preqs[p].error # "none") =>
       (preqs[p].error = "ProxyError" <=> ~preqs[p].decoded)

LowerHexChars == DecimalDigits \cup {"a", "b", "c", "d", "e", "f"}

UpperHexChars == {"A", "B", "C", "D", "E", "F"}

\* out is s in the 8-4-4-4-12 grouping: the same characters in the same
\* order with a hyphen after the 8th, 12th, 16th and 20th.
Regrouped(s, out) ==
  /\ Len(out) = Len(s) + 4
  /\ \A i \in 1..Len(out) :
       IF i \in {9, 14, 19, 24}
       THEN out[i] = "-"
       ELSE out[i] = s[i - Cardinality({j \in {9, 14, 19, 24} : j < i})]

\* C20 as stated: an identifier of 32 lower-case hexadecimal characters is
\* regrouped 8-4-4-4-12; every other input (hyphenated, not 32 characters,
\* not lower-case hexadecimal) is returned unchanged.
C20_RestoreLowerCaseOnly ==
  Present(output) =>
    IF Len(input) = 32 /\ \A i \in 1..Len(input) : input[i] \in LowerHexChars
    THEN Regrouped(input, Val(output))
    ELSE Val(output) = input

\* C20 amended: an identifier of 32 hexadecimal characters of either case is
\* regrouped 8-4-4-4-12 with its characters as they are; every other input
\* (with a hyphen, not 32 characters, or with a character that is no
\* hexadecimal digit) is returned unchanged.
C20_RestoreEitherCase ==
  Present(output) =>
    IF Len(input) = 32
       /\ \A i \in 1..Len(input) : input[i] \in LowerHexChars \cup UpperHexChars
    THEN Regrouped(input, Val(output))
    ELSE Val(output) = input

\* C20 witness: the identifier with one upper-case digit has been regrouped.
C20_Witness ==
  /\ Present(output)
  /\ input = [UuidBase EXCEPT ![7] = "F"]
  /\ Len(Val(output)) = 36
  /\ Val(output)[7] = "F" /\ Val(output)[9] = "-"

(***************************************************************************)
(* Properties of the providers and of the session manager                  *)
(***************************************************************************)

\* This step is a call of the provider method `op`.
ProviderCall(op) == calls' = calls + 1 /\ Val(result').op = op

\* seq holds the pieces of part, in a row.
Contains(seq, part) ==
  \E i \in 0..(Len(seq) - Len(part)) : SubSeq(seq, i + 1, i + Len(part)) = part

\* C21: in every provider variant getStatus never throws; for a handle that
\* does not exist, or when a call to the backend fails, it returns a status
\* record with status error and an error message; and it changes nothing
\* about the instances.
C21_GetStatusNeverThrows ==
  [][ProviderCall("getStatus")
       => /\ Val(result').kind = "resolved"
          /\ instances' = instances
          /\ (Val(result').handle \notin DOMAIN instances \/ fault' # "none")
               => /\ Val(Val(result').value).status = "error"
                  /\ Present(Val(Val(result').value).error)]_vars

\* C22: in every provider variant terminate of an instance that is already
\* absent, a second call after a successful first one included, completes
\* without raising an error.
C22_TerminateOfAbsentCompletes ==
  [][(ProviderCall("terminate") /\ Val(result').handle \notin DOMAIN instances)
       => Val(result').kind = "resolved"]_vars

\* C23: in every provider variant a failure of any internal step of
\* provision reaches the caller as a SandboxProvisionError whose provider
\* field names the backend and whose message contains the underlying error,
\* and nothing but a SandboxProvisionError escapes provision.
C23_ProvisionFailureIsTyped ==
  [][ProviderCall("provision")
       => /\ Val(result').kind = "rejected"
               => Val(Val(result').error).name = "SandboxProvisionError"
          /\ fault' # "none"
               => /\ Val(result').kind = "rejected"
                  /\ Val(Val(result').error).provider = Some(Backend(variant))
                  /\ Contains(Val(Val(result').error).message,
                              Underlying(variant, fault').message)]_vars

\* C24: a sweep removes exactly the sessions whose expiresAt is earlier
\* than the time of the sweep, whatever their status, returns exactly those
\* sessions, leaves every other session as it was, and leaves no session
\* whose expiresAt is before that time.
C24_SweepRemovesExactlyExpired ==
  [][sweeps' = sweeps + 1
       => LET gone == {id \in DOMAIN sessions : sessions[id].expiresAt < clock}
              returned == Val(expired')
          IN  /\ DOMAIN sessions' = DOMAIN sessions \ gone
              /\ \A id \in DOMAIN sessions' : sessions'[id] = sessions[id]
              /\ {returned[i] : i \in 1..Len(returned)} = {sessions[id] : id \in gone}
              /\ Len(returned) = Cardinality(gone)
              /\ \A id \in DOMAIN sessions' : sessions'[id].expiresAt >= clock]_vars

\* A sweep has returned a session that was not in status provisioning, and
\* left in the store a session that expires at the very time of the sweep.
C24_Witness ==
  /\ Present(expired)
  /\ \E i \in 1..Len(Val(expired)) : Val(expired)[i].status = "ready"
  /\ \E id \in DOMAIN sessions : sessions[id].expiresAt = clock

(***************************************************************************)
(* Further properties of the session actor                                 *)
(***************************************************************************)

\* C25: every accepted creation attempt gets a session id different from the
\* id of every earlier attempt of the sessionId.  The clock never goes back
\* and `now` is the reading the latest earlier attempt took, so the new id
\* is new exactly when it differs from the id made from `now`.
C25_FreshInstanceId ==
  [][(attempts > 0 /\ attempts' = attempts + 1)
       => Val(session').id # SandboxIdOf(now)]_vars

\* Request r, a create request, makes its reuse test in this step.
ReuseTest(r) == reqs[r].pc = "handle" /\ reqs[r].kind = "create" /\ Steps(r)

\* The request is answered 200 with the session it found, and nothing of the
\* session changes.
ServedExisting(r) ==
  /\ attempts' = attempts
  /\ UNCHANGED <<session, storage>>
  /\ reqs'[r].pc = "done"
  /\ Val(reqs'[r].resp).status = 200
  /\ BodyOf(Val(reqs'[r].resp), Val(session))

\* C26: a create request starts a new provisioning attempt only when the
\* session it finds is in status ready or error; a request that finds the
\* session in any other status is served that session unchanged.
C26_NewAttemptOnlyFromReadyOrError ==
  [][\A r \in Reqs :
       (ReuseTest(r) /\ Present(session))
       => IF Val(session).status \in {"ready", "error"}
          THEN TRUE
          ELSE ServedExisting(r)]_vars

\* C26 as amended: a create request starts a new provisioning attempt only
\* when it finds no session or finds the session in status error or
\* terminated; a request that finds the session in any other status
\* (provisioning, cloning, starting, ready) is served that session unchanged.
C26_NewAttemptOnlyFromErrorOrTerminated ==
  [][\A r \in Reqs :
       ReuseTest(r)
       => /\ attempts' = attempts + 1
               => (Present(session) => Val(session).status \in {"error", "terminated"})
          /\ (Present(session) /\ Val(session).status \notin {"error", "terminated"})
               => ServedExisting(r)]_vars

\* C26 witness: the first attempt allocated its instance and ended, a delete
\* that arrived after it terminated the session, and a create request that
\* arrived after the delete has started the second attempt.
C26_Witness ==
  /\ envSandbox
  /\ reqs[1].kind = "create" /\ Done(1) /\ reqs[1].provisioned
  /\ reqs[2].kind = "delete" /\ Done(2) /\ reqs[2].prev = "create"
  /\ reqs[3].kind = "create" /\ reqs[3].prev = "delete"
  /\ reqs[3].accepted /\ reqs[3].pc = "save_init"
  /\ attempts = 2

\* The points of a creation attempt at which its next step issues a call
\* to the sandbox.
ProviderCallPcs == {"exec_clone", "exec_verify", "exec_install", "poll", "expose_port"}

\* C27: at the moment a provider call of a creation attempt is issued,
\* storage holds the record of that attempt (written in status provisioning
\* before the first provider call).
C27_StoredBeforeProviderCall ==
  \A r \in Reqs :
    (reqs[r].kind = "create" /\ reqs[r].pc \in ProviderCallPcs)
    => /\ Present(storage)
       /\ Val(storage).id = Val(reqs[r].sb)

\* C28: the instance handle of a session is set in status cloning, starting
\* and ready and null in status provisioning and terminated (in status error
\* it is set exactly when the instance had been allocated).
C28_HandleFollowsStatus ==
  \A s \in {session, storage} :
    Present(s)
    => /\ Val(s).status \in {"cloning", "starting", "ready"} => Present(Val(s).sandboxId)
       /\ Val(s).status \in {"provisioning", "terminated"} => ~Present(Val(s).sandboxId)

\* C29: no failure of a provider or storage call leaves fetch as an uncaught
\* exception: every request that ends has its HTTP response, and a request
\* that ends in the 500 of the catch block leaves status error recorded on
\* the session, in memory and in storage.
C29_FetchAlwaysResponds ==
  [][\A r \in Reqs :
       (Steps(r) /\ reqs'[r].pc = "done")
       => /\ Present(reqs'[r].resp)
          /\ Val(reqs'[r].resp).status = 500
               => /\ Present(session') /\ Val(session').status = "error"
                  /\ Present(storage') /\ Val(storage').status = "error"]_vars

(***************************************************************************)
(* Further properties of the proxy                                         *)
(***************************************************************************)

\* Request p is between its call of the provider and the provider's answer.
Resolving(p) == preqs[p].pc \in {"get", "link"}

SameKey(p, q) ==
  preqs[p].sandboxId = preqs[q].sandboxId /\ preqs[p].port = preqs[q].port

\* C30: concurrent lookups of one key that start while the entry is absent
\* or expired cause a single provider resolution: no two of them are
\* resolving the key at the same time.
C30_ConcurrentMissesCollapse ==
  \A p, q \in PReqs : (p # q /\ Resolving(p) /\ Resolving(q)) => ~SameKey(p, q)

\* C30 as amended: a lookup that starts while the entry is absent or expired
\* makes its own provider resolution, also while another lookup is resolving
\* the same key; when its resolution answers, the caller receives the url of
\* that resolution and the entry is overwritten with that url and the
\* current timestamp, whatever another lookup wrote in between.
C30_EachMissResolvesAndOverwrites ==
  [][\A p \in PReqs :
       /\ (/\ LookupStarts(p)
           /\ \E q \in PReqs \ {p} :
                Resolving(q) /\ CacheKey(preqs[q].sandboxId, preqs[q].port) = KeyOf(p)
           /\ IF KeyOf(p) \in DOMAIN urlCache
              THEN time - urlCache[KeyOf(p)].timestamp >= CACHE_TTL
              ELSE TRUE)
          => /\ preqs'[p].pc = "get"
             /\ preqs'[p].calls = 1
       /\ (/\ preqs[p].pc = "link"
           /\ Present(preqs'[p].targetUrl)
           /\ KeyOf(p) \in DOMAIN urlCache)
          => /\ preqs'[p].targetUrl =
                  Some(PreviewLink(restoreUuidFormat(preqs[p].sandboxId), preqs[p].port, gen))
             /\ urlCache'[KeyOf(p)] = CacheEntry(Val(preqs'[p].targetUrl), time)]_vars

\* C30 witness: two lookups of one key that both started before any entry
\* was written have each made their own resolution and hold different urls.
C30_Witness ==
  \E p, q \in PReqs :
    /\ p # q /\ SameKey(p, q)
    /\ preqs[p].pc = "routed" /\ preqs[q].pc = "routed"
    /\ preqs[p].calls = 1 /\ preqs[q].calls = 1
    /\ Present(preqs[p].targetUrl) /\ Present(preqs[q].targetUrl)
    /\ preqs[p].targetUrl # preqs[q].targetUrl
    /\ time = 0

\* ---------------------------------------------------------------------
\* Further properties of the address decoding.

\* The text before the first hyphen of the leftmost label of a host (the
\* whole label when it has no hyphen).
PortSegment(h) ==
  LET label == LeftmostLabel(h)
      hy == FirstIndex(label, "-")
  IN  IF hy = 0 THEN label ELSE SubSeq(label, 1, hy - 1)

\* A non-empty run of decimal digits and nothing else.
AllDecimal(s) == s # <<>> /\ \A i \in 1..Len(s) : s[i] \in DecimalDigits

\* C31: a host whose port segment is not a decimal number in its entirety
\* is rejected; the decode succeeds only when the whole segment is numeric.
C31_PartlyNumericPortRejected ==
  Present(output) => (~AllDecimal(PortSegment(input)) => ~Val(output).ok)

\* ---------------------------------------------------------------------
\* Properties of the end of a creation attempt.

\* The statuses a running creation passes through.
InFlightStatuses == {"provisioning", "cloning", "starting"}

\* Request r, an accepted creation attempt, returns to its caller in this
\* step.
AttemptEnds(r) ==
  /\ reqs[r].kind = "create" /\ reqs[r].accepted
  /\ reqs[r].pc # "done" /\ reqs'[r].pc = "done"

\* C32: a creation attempt whose provider calls each return or throw ends
\* with the stored session in status ready or error; it is never left in
\* provisioning, cloning or starting.
C32_AttemptEndsReadyOrError ==
  [][\A r \in Reqs :
       AttemptEnds(r) =>
         /\ Present(storage')
         /\ Val(storage').status \in {"ready", "error"}]_vars

\* ---------------------------------------------------------------------
\* Further properties of the providers.

\* The provision call made in this step raised its error.
ProvisionFails == ProviderCall("provision") /\ Val(result').kind = "rejected"

\* C33: in each provider variant, when provision raises its error the
\* instance allocated by that attempt (if any) has been torn down: no
\* instance created by the failed attempt stays allocated.
C33_FailedProvisionLeavesNothing ==
  [][ProvisionFails => Val(result').handle \notin DOMAIN instances']_vars

\* C39: in the Docker variant, when the container is not reported running
\* within the readiness timeout, provision returns no result: it raises
\* SandboxProvisionError with provider "docker", carrying the timeout's
\* message, after tearing the container down by its name, so that the
\* container is gone unless the backend failed the remove command of that
\* teardown; the containers of other attempts are left alone.
C39_DockerTimeoutTearsDownAndThrows ==
  [][(ProviderCall("provision") /\ variant = "docker" /\ fault' = "wait")
       => /\ Val(result').kind = "rejected"
          /\ Val(result').value = Null
          /\ Val(Val(result').error).name = "SandboxProvisionError"
          /\ Val(Val(result').error).provider = Some("docker")
          /\ Contains(Val(Val(result').error).message,
                      <<"Container failed to start within timeout">>)
          /\ cleanupFault' # "rm" => Val(result').handle \notin DOMAIN instances'
          /\ \A k \in DOMAIN instances : k \in DOMAIN instances' /\ instances'[k] = instances[k]]_vars

\* C39 witness: the second provision of a Docker provider ended on the
\* readiness timeout; its container is gone and the first one is still
\* there.
C39_Witness ==
  /\ variant = "docker"
  /\ Present(result)
  /\ Val(result).op = "provision"
  /\ Val(result).kind = "rejected"
  /\ fault = "wait"
  /\ cleanupFault = "none"
  /\ Val(result).handle = 2
  /\ DOMAIN instances = {1}

\* ---------------------------------------------------------------------
\* Properties of a delete that meets a creation in flight.

\* The instances a destroy call of the orchestrator has destroyed.
Destroyed ==
  {Val(reqs[r].destroyed) : r \in {q \in Reqs : Present(reqs[q].destroyed)}}

\* The record s is ready and names an instance that has been destroyed.
ReadyOnDestroyed(s) ==
  /\ Present(s)
  /\ Val(s).status = "ready"
  /\ Present(Val(s).sandboxId)
  /\ Val(Val(s).sandboxId) \in Destroyed

\* C34: a session in status ready never refers to an instance the
\* orchestrator has already destroyed, also when a delete meets a creation
\* in flight: neither the record the actor holds nor the stored one.
C34_ReadyInstanceNotDestroyed ==
  ~ReadyOnDestroyed(session) /\ ~ReadyOnDestroyed(storage)

\* Request r, an accepted creation attempt, writes the session record in
\* this step (each step is taken by one request; CreateCheck, which makes
\* the attempt's own record, is not yet accepted before the step).
AttemptWrites(r) ==
  /\ reqs[r].kind = "create" /\ reqs[r].accepted
  /\ reqs'[r] # reqs[r]
  /\ session' # session
  /\ Present(session')

\* C35: a session record is written only by the creation attempt that
\* created it: an attempt never writes status, url or error message into a
\* record with another id, and the url of a record is the one of the
\* instance its own sandboxId names.
C35_RecordWrittenOnlyByItsAttempt ==
  [][/\ \A r \in Reqs : AttemptWrites(r) => Some(Val(session').id) = reqs[r].sb
     /\ (Present(session') /\ Present(Val(session').url))
          => /\ Present(Val(session').sandboxId)
             /\ Val(session').url = Some(PreviewUrl(Val(Val(session').sandboxId)))
             /\ Val(Val(session').sandboxId) = Val(session').id]_vars

\* ---------------------------------------------------------------------
\* Properties of requests unrelated to the sandbox.

\* C37: a request that fails for a reason unrelated to the session's
\* sandbox (an unparsable POST body, a POST without the create action, an
\* unsupported method) leaves the stored session as it was: no step of such
\* a request changes the stored record.
C37_InvalidRequestLeavesSession ==
  [][\A r \in Reqs :
       (reqs[r].kind \in InvalidKinds /\ reqs'[r] # reqs[r]) => storage' = storage]_vars

\* ---------------------------------------------------------------------
\* Properties of the actor across restarts.

\* A creation run is executing.
CreationRuns == \E r \in Reqs : reqs[r].kind = "create" /\ reqs[r].accepted /\ InFlight(r)

\* C36: a stored status of provisioning, cloning or starting never outlives
\* the creation run that set it: in every reachable state, after a restart
\* of the actor included, a stored session in one of these statuses has a
\* creation run executing.
C36_InFlightStatusHasRun ==
  (Present(storage) /\ Val(storage).status \in InFlightStatuses) => CreationRuns

\* ---------------------------------------------------------------------
\* Properties of a failed resolution in the proxy.

\* The provider resolution of lookup p fails in this step: daytona.get or
\* getPreviewLink throws.
ResolutionFails(p) ==
  /\ Resolving(p)
  /\ ~Present(preqs[p].proxyError) /\ Present(preqs'[p].proxyError)

\* C38: when the provider resolution inside a cache lookup fails, the cache
\* is left exactly as it was (no entry added, overwritten or given a new
\* timestamp), the lookup hands out no url, and the failure is kept on the
\* request of that lookup only: every other request is as it was.
C38_FailedResolutionLeavesCache ==
  [][\A p \in PReqs :
       ResolutionFails(p)
         => /\ urlCache' = urlCache
            /\ preqs'[p].pc = "routed"
            /\ ~Present(preqs'[p].targetUrl)
            /\ \A q \in PReqs \ {p} : preqs'[q] = preqs[q]]_vars

\* C38 witness: a lookup failed while the entry of its key was past its
\* TTL; the entry is still in the cache with its old timestamp, and another
\* request of the same key still holds the url it resolved.
C38_Witness ==
  \E p, q \in PReqs :
    /\ p # q /\ SameKey(p, q)
    /\ preqs[p].pc = "routed" /\ preqs[p].proxyError = Some(MsgDaytona)
    /\ preqs[q].pc = "routed" /\ Present(preqs[q].targetUrl) /\ preqs[q].calls = 1
    /\ CacheKey(preqs[p].sandboxId, preqs[p].port) \in DOMAIN urlCache
    /\ time > CACHE_TTL
    /\ urlCache[CacheKey(preqs[p].sandboxId, preqs[p].port)].timestamp = 0

====
